---- MODULE Spec2Model ----
(***************************************************************************)
(* Model of supabase/functions/zerodha-ltp-py/index.py: the HTTP handler   *)
(* that authenticates a bearer token, reads a broker connection row and    *)
(* fetches last-traded prices from the broker API.                         *)
(*                                                                         *)
(* Python strings that the handler takes apart (the Authorization header,  *)
(* the instruments parameter) are sequences of one-character strings.      *)
(* Python None / an absent dictionary key is the empty sequence <<>>, a    *)
(* present value x is <<x>>.                                               *)
(***************************************************************************)
EXTENDS Integers, Sequences, FiniteSets, TLC

VARIABLES pc, req, environ, supabase, auth_header, token, user, broker_data,
          kite, instruments_list, ltp_data, exc, resp, calls, auth_arg,
          select_arg, ltp_arg, outcome, repeat

(* pc                the handler's position: idle, entry (line 15),        *)
(*                   create_client (23), auth_header (28), get_user (33),  *)
(*                   params (40), select (51), kite (61), ltp (73),        *)
(*                   respond (75), except (87), done (returned), escaped   *)
(* req, environ      the request and os.environ of the invocation          *)
(* supabase          whether create_client returned a client (line 25)     *)
(* auth_header, token, user, broker_data, kite, instruments_list,          *)
(* ltp_data          the handler's local variables of the same names       *)
(* exc               the exception bound by "except Exception as e"        *)
(* resp              the Response returned                                 *)
(* calls             the outbound calls made so far, in order              *)
(* auth_arg, select_arg, ltp_arg   the arguments of those calls            *)
(* outcome           what each collaborator answered                       *)
(* repeat            the request repeats the previous one, which reached   *)
(*                   the broker                                            *)
vars == <<pc, req, environ, supabase, auth_header, token, user, broker_data,
          kite, instruments_list, ltp_data, exc, resp, calls, auth_arg,
          select_arg, ltp_arg, outcome, repeat>>

locals == <<supabase, auth_header, token, user, broker_data, kite,
            instruments_list, ltp_data, exc, resp>>

log == <<calls, auth_arg, select_arg, ltp_arg, outcome>>

input == <<req, environ, repeat>>

None == <<>>
Some(x) == <<x>>

\* dict.get(key, default)
Get(opt, default) == IF opt = None THEN default ELSE opt[1]

\* Python truthiness of an optional string (None and '' are falsy)
Truthy(opt, empty) == opt # None /\ opt[1] # empty

-----------------------------------------------------------------------------
(* Bounds of the input domains *)
MaxPieces == 3
MaxLen == 3

-----------------------------------------------------------------------------
(* String operations *)

Bearer == <<"B", "e", "a", "r", "e", "r", " ">>

Whitespace == {" ", "\t", "\n"}

\* str.replace(old, new): every non-overlapping occurrence, left to right
RECURSIVE Replace(_, _, _)
Replace(s, old, new) ==
    IF Len(s) < Len(old) THEN s
    ELSE IF SubSeq(s, 1, Len(old)) = old
         THEN new \o Replace(SubSeq(s, Len(old) + 1, Len(s)), old, new)
         ELSE <<Head(s)>> \o Replace(Tail(s), old, new)

\* str.split(sep) for a one-character separator
RECURSIVE Split(_, _)
Split(s, sep) ==
    IF \A i \in 1..Len(s) : s[i] # sep THEN <<s>>
    ELSE LET i == CHOOSE j \in 1..Len(s) :
                      s[j] = sep /\ \A k \in 1..(j - 1) : s[k] # sep
         IN  <<SubSeq(s, 1, i - 1)>> \o Split(SubSeq(s, i + 1, Len(s)), sep)

RECURSIVE LStrip(_)
LStrip(s) == IF s # <<>> /\ Head(s) \in Whitespace THEN LStrip(Tail(s)) ELSE s

RECURSIVE RStrip(_)
RStrip(s) ==
    IF s # <<>> /\ s[Len(s)] \in Whitespace
    THEN RStrip(SubSeq(s, 1, Len(s) - 1)) ELSE s

\* str.strip()
Strip(s) == RStrip(LStrip(s))

\* variant: elements that are empty after trimming are dropped
ParseInstrumentsNonEmpty(instruments_str) ==
    LET parts == Split(instruments_str, ",")
        keep(x) == x # <<>>
    IN  SelectSeq([k \in 1..Len(parts) |-> Strip(parts[k])], keep)

\* [i.strip() for i in instruments_str.split(',')]
ParseInstruments(instruments_str) ==
    LET parts == Split(instruments_str, ",")
    IN  [k \in 1..Len(parts) |-> Strip(parts[k])]

-----------------------------------------------------------------------------
(* JSON values and json.dumps.  A value is [k |-> kind, v |-> payload];    *)
(* an object's payload is the sequence of its <<key, value>> members in    *)
(* insertion order.  The encoded text is a sequence of tokens.             *)

JNull == [k |-> "null", v |-> "null"]
JBool(b) == [k |-> "bool", v |-> b]
JStr(s) == [k |-> "str", v |-> s]
JNum(n) == [k |-> "num", v |-> n]
JObj(members) == [k |-> "obj", v |-> members]
\* a Python object json cannot encode (a datetime, say)
JOther(t) == [k |-> "other", v |-> t]

Punct(c) == [k |-> "p", v |-> c]
Lit(w) == [k |-> "lit", v |-> w]
StrTok(s) == [k |-> "str", v |-> s]
NumTok(n) == [k |-> "num", v |-> n]

RECURSIVE Serializable(_)
Serializable(x) ==
    CASE x.k = "other" -> FALSE
      [] x.k = "obj"   -> \A i \in 1..Len(x.v) : Serializable(x.v[i][2])
      [] OTHER         -> TRUE

RECURSIVE Dumps(_)
RECURSIVE DumpMembers(_, _)
DumpMembers(ms, i) ==
    IF i > Len(ms) THEN <<>>
    ELSE (IF i > 1 THEN <<Punct(",")>> ELSE <<>>)
         \o <<StrTok(ms[i][1]), Punct(":")>> \o Dumps(ms[i][2])
         \o DumpMembers(ms, i + 1)

\* json.dumps(x) for a serializable x
Dumps(x) ==
    CASE x.k = "null" -> <<Lit("null")>>
      [] x.k = "bool" -> <<Lit(IF x.v THEN "true" ELSE "false")>>
      [] x.k = "str"  -> <<StrTok(x.v)>>
      [] x.k = "num"  -> <<NumTok(x.v)>>
      [] x.k = "obj"  -> <<Punct("{")>> \o DumpMembers(x.v, 1) \o <<Punct("}")>>

-----------------------------------------------------------------------------
(* Response objects and the headers the handler attaches *)

cors_headers ==
    ("Access-Control-Allow-Origin" :> "*")
    @@ ("Access-Control-Allow-Methods" :> "GET, POST, OPTIONS")
    @@ ("Access-Control-Allow-Headers" :>
            "Content-Type, Authorization, X-Client-Info, Apikey")

\* {**cors_headers, 'Content-Type': 'application/json'}
json_headers == ("Content-Type" :> "application/json") @@ cors_headers

\* the default of Response's body parameter: ''
DefaultBody == <<>>

Response(body, status, headers) ==
    [body |-> body, status |-> status, headers |-> headers]

-----------------------------------------------------------------------------
(* Exceptions.  args is the tuple the exception was built with. *)

Exc(type, msg) == [type |-> type, args |-> <<msg>>]

\* str(e)
Str(e) == IF e.args = <<>> THEN "" ELSE e.args[1]

\* the classes "except Exception" catches
ExceptionClasses ==
    {"Exception", "SupabaseException", "AuthApiError", "APIError",
     "KiteException", "AttributeError", "TypeError"}

\* variant: only the handler's own exceptions are caught
CatchesOwn(e) == e.type = "Exception"

Catches(e) == e.type \in ExceptionClasses

\* what the collaborators may raise
AuthErrors == {Exc("AuthApiError", "invalid JWT")}
StoreErrors == {Exc("APIError", "connection refused")}
BrokerErrors == {Exc("KiteException", "Incorrect api_key or access_token")}

-----------------------------------------------------------------------------
(* The collaborators' data *)

Users == {"u1", "u2"}

\* the broker_connections table; api_key and access_token are nullable
BrokerConnections ==
    { [id |-> "b1", user_id |-> "u1", api_key |-> Some("k1"), access_token |-> Some("t1")],
      [id |-> "b2", user_id |-> "u2", api_key |-> Some("k2"), access_token |-> Some("t2")],
      [id |-> "b3", user_id |-> "u1", api_key |-> Some(""),   access_token |-> Some("t3")],
      [id |-> "b4", user_id |-> "u1", api_key |-> Some("k4"), access_token |-> Some("")],
      [id |-> "b5", user_id |-> "u1", api_key |-> None,       access_token |-> Some("t5")],
      [id |-> "b6", user_id |-> "u1", api_key |-> Some("k6"), access_token |-> None] }

\* variant: the user_id filter is left out
SelectById(table, id, user_id) ==
    {r \in table : r.id = id}

\* .eq('id', broker_id).eq('user_id', user.id)
Select(table, id, user_id) ==
    {r \in table : r.id = id /\ r.user_id = user_id}

\* .select('api_key, access_token')
Project(r) == [api_key |-> r.api_key, access_token |-> r.access_token]

Quote(p) == JObj(<< <<"last_price", JNum(p)>> >>)

\* what kite.ltp may return
LtpResults ==
    { JObj(<<>>),
      JObj(<< <<"NSE:A", Quote("101.5")>> >>),
      JObj(<< <<"NSE:A", Quote("101.5")>>, <<"NSE:B", Quote("7")>> >>),
      JObj(<< <<"NSE:B", Quote("7")>>, <<"NSE:A", Quote("101.5")>> >>),
      JObj(<< <<"NSE:A", JNull>>, <<"NSE:B", Quote("7")>> >>),
      JObj(<< <<"NSE:A", JOther("datetime")>> >>) }

-----------------------------------------------------------------------------
(* The requests and environments the handler is run on *)

Pieces == {Bearer, <<"a">>, <<"B", "e">>}

\* the concatenations of at most n pieces
RECURSIVE Concats(_)
Concats(n) ==
    IF n = 0 THEN {<<>>}
    ELSE LET shorter == Concats(n - 1)
         IN  shorter \cup {p \o s : p \in Pieces, s \in shorter}

Alphabet == {"A", "B", ",", " "}

\* the strings over Alphabet of length at most n
RECURSIVE Strings(_)
Strings(n) ==
    IF n = 0 THEN {<<>>}
    ELSE LET shorter == Strings(n - 1)
         IN  shorter \cup {<<c>> \o s : c \in Alphabet, s \in shorter}

Methods == {"OPTIONS", "GET"}

Request(method, authorization, broker_id, instruments) ==
    [method |-> method,
     headers |-> [Authorization |-> authorization],
     params |-> [broker_id |-> broker_id, instruments |-> instruments]]

Environ(url, key) == [SUPABASE_URL |-> url, SUPABASE_SERVICE_ROLE_KEY |-> key]

GoodEnviron == Environ(Some("https://project.supabase.co"), Some("service-role-key"))

Environs ==
    {GoodEnviron,
     Environ(None, Some("service-role-key")),
     Environ(Some("https://project.supabase.co"), None)}

BrokerIds ==
    {None, Some("")} \cup {Some(r.id) : r \in BrokerConnections} \cup {Some("b9")}

\* every combination of a few values of each input
BaseInputs ==
    { [req |-> Request(m, h, b, i), environ |-> e] :
        m \in Methods,
        h \in {None, Some(<<>>), Some(Bearer \o <<"a">>)},
        b \in BrokerIds,
        i \in {None, Some(<<>>), Some(<<"A", ",", " ", "B">>)},
        e \in Environs }

\* every Authorization header of at most MaxPieces pieces, the rest valid
HeaderInputs ==
    { [req |-> Request("GET", Some(h), Some("b1"), Some(<<"A">>)),
       environ |-> GoodEnviron] : h \in Concats(MaxPieces) }

\* every instruments string of at most MaxLen characters, the rest valid
InstrumentInputs ==
    { [req |-> Request("GET", Some(Bearer \o <<"a">>), Some("b1"), Some(i)),
       environ |-> GoodEnviron] : i \in Strings(MaxLen) }

Inputs == BaseInputs \cup HeaderInputs \cup InstrumentInputs

-----------------------------------------------------------------------------
(* The handler *)

LtpCalls(cs) == Cardinality({i \in 1..Len(cs) : cs[i] = "kite.ltp"})

\* what each collaborator did in this invocation: "-" when it was not called
NoOutcome == [auth |-> "-", store |-> "-", broker |-> "-"]

Init ==
    /\ pc = "idle"
    /\ req = Request("GET", None, None, None)
    /\ environ = GoodEnviron
    /\ repeat = FALSE
    /\ supabase = FALSE
    /\ auth_header = <<>>
    /\ token = <<>>
    /\ user = None
    /\ broker_data = None
    /\ kite = None
    /\ instruments_list = <<>>
    /\ ltp_data = JNull
    /\ exc = None
    /\ resp = None
    /\ calls = <<>>
    /\ auth_arg = None
    /\ select_arg = None
    /\ ltp_arg = None
    /\ outcome = NoOutcome

\* the host runtime invokes handler(req); repeat records that the request
\* equals the one just served and that one reached the broker
Receive(in) ==
    /\ pc \in {"idle", "done", "escaped"}
    /\ req' = in.req
    /\ environ' = in.environ
    /\ repeat' = (pc = "done" /\ in.req = req /\ in.environ = environ
                    /\ LtpCalls(calls) > 0)
    /\ pc' = "entry"
    /\ supabase' = FALSE
    /\ auth_header' = <<>>
    /\ token' = <<>>
    /\ user' = None
    /\ broker_data' = None
    /\ kite' = None
    /\ instruments_list' = <<>>
    /\ ltp_data' = JNull
    /\ exc' = None
    /\ resp' = None
    /\ calls' = <<>>
    /\ auth_arg' = None
    /\ select_arg' = None
    /\ ltp_arg' = None
    /\ outcome' = NoOutcome

\* raise e inside the try block
Raise(e) == exc' = Some(e) /\ pc' = "except"

\* variant: the pre-flight response carries the JSON headers
PreflightJson ==
    /\ pc = "entry"
    /\ IF req.method = "OPTIONS"
       THEN /\ resp' = Some(Response(DefaultBody, 200, json_headers))
            /\ pc' = "done"
       ELSE /\ pc' = "create_client"
            /\ resp' = resp
    /\ UNCHANGED <<input, log, supabase, auth_header, token, user, broker_data,
                   kite, instruments_list, ltp_data, exc>>

\* if req.method == 'OPTIONS': return Response(status=200, headers=cors_headers)
Preflight ==
    /\ pc = "entry"
    /\ IF req.method = "OPTIONS"
       THEN /\ resp' = Some(Response(DefaultBody, 200, cors_headers))
            /\ pc' = "done"
       ELSE /\ pc' = "create_client"
            /\ resp' = resp
    /\ UNCHANGED <<input, log, supabase, auth_header, token, user, broker_data,
                   kite, instruments_list, ltp_data, exc>>

\* create_client(os.environ.get('SUPABASE_URL'), os.environ.get('SUPABASE_SERVICE_ROLE_KEY'))
CreateClient ==
    /\ pc = "create_client"
    /\ IF ~Truthy(environ.SUPABASE_URL, "")
       THEN Raise(Exc("SupabaseException", "supabase_url is required"))
            /\ supabase' = supabase
       ELSE IF ~Truthy(environ.SUPABASE_SERVICE_ROLE_KEY, "")
       THEN Raise(Exc("SupabaseException", "supabase_key is required"))
            /\ supabase' = supabase
       ELSE supabase' = TRUE /\ pc' = "auth_header" /\ exc' = exc
    /\ UNCHANGED <<input, log, auth_header, token, user, broker_data, kite,
                   instruments_list, ltp_data, resp>>

\* variant: an empty header is not rejected
AuthHeaderUnchecked ==
    /\ pc = "auth_header"
    /\ auth_header' = Get(req.headers.Authorization, <<>>)
    /\ token' = Replace(auth_header', Bearer, <<>>)
    /\ pc' = "get_user"
    /\ UNCHANGED <<input, log, supabase, user, broker_data, kite,
                   instruments_list, ltp_data, resp, exc>>

\* the Authorization header and the token taken from it
AuthHeader ==
    /\ pc = "auth_header"
    /\ auth_header' = Get(req.headers.Authorization, <<>>)
    /\ IF auth_header' = <<>>
       THEN Raise(Exc("Exception", "No authorization header")) /\ token' = token
       ELSE /\ token' = Replace(auth_header', Bearer, <<>>)
            /\ pc' = "get_user"
            /\ exc' = exc
    /\ UNCHANGED <<input, log, supabase, user, broker_data, kite,
                   instruments_list, ltp_data, resp>>

\* variant: a response without a user is not rejected
GetUserUnchecked ==
    /\ pc = "get_user"
    /\ calls' = Append(calls, "auth.get_user")
    /\ auth_arg' = Some(token)
    /\ \/ \E e \in AuthErrors :
             /\ outcome' = [outcome EXCEPT !.auth = "raised"]
             /\ Raise(e) /\ user' = user
       \/ /\ outcome' = [outcome EXCEPT !.auth = "no_response"]
          /\ Raise(Exc("AttributeError", "'NoneType' object has no attribute 'user'"))
          /\ user' = user
       \/ /\ outcome' = [outcome EXCEPT !.auth = "no_user"]
          /\ user' = None /\ pc' = "params" /\ exc' = exc
       \/ \E u \in Users :
             /\ outcome' = [outcome EXCEPT !.auth = "user"]
             /\ user' = Some(u) /\ pc' = "params" /\ exc' = exc
    /\ UNCHANGED <<input, select_arg, ltp_arg, supabase, auth_header, token,
                   broker_data, kite, instruments_list, ltp_data, resp>>

\* supabase.auth.get_user(token), user_response.user, if not user
GetUser ==
    /\ pc = "get_user"
    /\ calls' = Append(calls, "auth.get_user")
    /\ auth_arg' = Some(token)
    /\ \/ \E e \in AuthErrors :
             /\ outcome' = [outcome EXCEPT !.auth = "raised"]
             /\ Raise(e) /\ user' = user
       \/ /\ outcome' = [outcome EXCEPT !.auth = "no_response"]
          /\ Raise(Exc("AttributeError", "'NoneType' object has no attribute 'user'"))
          /\ user' = user
       \/ /\ outcome' = [outcome EXCEPT !.auth = "no_user"]
          /\ user' = None
          /\ Raise(Exc("Exception", "Unauthorized"))
       \/ \E u \in Users :
             /\ outcome' = [outcome EXCEPT !.auth = "user"]
             /\ user' = Some(u) /\ pc' = "params" /\ exc' = exc
    /\ UNCHANGED <<input, select_arg, ltp_arg, supabase, auth_header, token,
                   broker_data, kite, instruments_list, ltp_data, resp>>

broker_id == req.params.broker_id
instruments_str == Get(req.params.instruments, <<>>)

\* variant: instruments is checked before broker_id
ParamsSwapped ==
    /\ pc = "params"
    /\ IF instruments_str = <<>>
       THEN Raise(Exc("Exception", "Missing instruments parameter"))
       ELSE IF ~Truthy(broker_id, "")
       THEN Raise(Exc("Exception", "Missing broker_id parameter"))
       ELSE pc' = "select" /\ exc' = exc
    /\ UNCHANGED <<input, log, supabase, auth_header, token, user, broker_data,
                   kite, instruments_list, ltp_data, resp>>

\* the two parameter checks
Params ==
    /\ pc = "params"
    /\ IF ~Truthy(broker_id, "")
       THEN Raise(Exc("Exception", "Missing broker_id parameter"))
       ELSE IF instruments_str = <<>>
       THEN Raise(Exc("Exception", "Missing instruments parameter"))
       ELSE pc' = "select" /\ exc' = exc
    /\ UNCHANGED <<input, log, supabase, auth_header, token, user, broker_data,
                   kite, instruments_list, ltp_data, resp>>

\* the broker_connections read and the check of its result
QueryStore ==
    /\ pc = "select"
    /\ IF user = None
       THEN \* user.id of None
            /\ Raise(Exc("AttributeError", "'NoneType' object has no attribute 'id'"))
            /\ UNCHANGED <<calls, select_arg, outcome, broker_data>>
       ELSE /\ calls' = Append(calls, "table.select")
            /\ select_arg' = Some([id |-> broker_id[1], user_id |-> user[1]])
            /\ \/ \E e \in StoreErrors :
                     /\ outcome' = [outcome EXCEPT !.store = "raised"]
                     /\ Raise(e) /\ broker_data' = broker_data
               \/ LET rows == Select(BrokerConnections, broker_id[1], user[1])
                  IN  IF Cardinality(rows) > 1
                      THEN \* maybe_single() on several rows
                           /\ outcome' = [outcome EXCEPT !.store = "raised"]
                           /\ Raise(Exc("APIError", "JSON object requested, multiple (or no) rows returned"))
                           /\ broker_data' = broker_data
                      ELSE LET data == IF rows = {} THEN None
                                       ELSE Some(Project(CHOOSE r \in rows : TRUE))
                           IN  /\ outcome' = [outcome EXCEPT !.store =
                                                IF data = None THEN "no_row" ELSE "row"]
                               /\ IF data = None \/ ~Truthy(data[1].access_token, "")
                                  THEN /\ Raise(Exc("Exception", "Broker not connected or access token missing"))
                                       /\ broker_data' = broker_data
                                  ELSE broker_data' = data /\ pc' = "kite" /\ exc' = exc
    /\ UNCHANGED <<input, auth_arg, ltp_arg, supabase, auth_header, token, user,
                   kite, instruments_list, ltp_data, resp>>

\* KiteConnect(api_key=api_key), set_access_token, and the instruments list
InitKite ==
    /\ pc = "kite"
    /\ kite' = Some([api_key |-> broker_data[1].api_key,
                     access_token |-> broker_data[1].access_token])
    /\ instruments_list' = ParseInstruments(instruments_str)
    /\ pc' = "ltp"
    /\ UNCHANGED <<input, log, supabase, auth_header, token, user, broker_data,
                   ltp_data, exc, resp>>

\* kite.ltp(instruments_list)
FetchLtp ==
    /\ pc = "ltp"
    /\ calls' = Append(calls, "kite.ltp")
    /\ ltp_arg' = Some(instruments_list)
    /\ \/ \E e \in BrokerErrors :
             /\ outcome' = [outcome EXCEPT !.broker = "raised"]
             /\ Raise(e) /\ ltp_data' = ltp_data
       \/ \E r \in LtpResults :
             /\ outcome' = [outcome EXCEPT !.broker = "returned"]
             /\ ltp_data' = r /\ pc' = "respond" /\ exc' = exc
    /\ UNCHANGED <<input, auth_arg, select_arg, supabase, auth_header, token,
                   user, broker_data, kite, instruments_list, resp>>

\* variant: instruments without a quote are left out of data
SuccessBodyQuoted(data) ==
    LET quoted(m) == m[2] # JNull
    IN  JObj(<< <<"success", JBool(TRUE)>>,
                <<"data", IF data.k = "obj" THEN JObj(SelectSeq(data.v, quoted))
                          ELSE data>> >>)

\* {'success': True, 'data': ltp_data}
SuccessBody(data) == JObj(<< <<"success", JBool(TRUE)>>, <<"data", data>> >>)

\* {'success': False, 'error': str(e)}
ErrorBody(e) == JObj(<< <<"success", JBool(FALSE)>>, <<"error", JStr(Str(e))>> >>)

\* the success response; json.dumps raises TypeError on what it cannot encode
Success ==
    /\ pc = "respond"
    /\ IF Serializable(SuccessBody(ltp_data))
       THEN /\ resp' = Some(Response(Dumps(SuccessBody(ltp_data)), 200, json_headers))
            /\ pc' = "done"
            /\ exc' = exc
       ELSE /\ Raise(Exc("TypeError", "Object of type datetime is not JSON serializable"))
            /\ resp' = resp
    /\ UNCHANGED <<input, log, supabase, auth_header, token, user, broker_data,
                   kite, instruments_list, ltp_data>>

\* except Exception as e: the 400 response; anything else propagates
Except ==
    /\ pc = "except"
    /\ IF Catches(exc[1])
       THEN /\ resp' = Some(Response(Dumps(ErrorBody(exc[1])), 400, json_headers))
            /\ pc' = "done"
       ELSE /\ pc' = "escaped"
            /\ resp' = resp
    /\ UNCHANGED <<input, log, supabase, auth_header, token, user, broker_data,
                   kite, instruments_list, ltp_data, exc>>

Next ==
    \/ \E in \in Inputs : Receive(in)
    \/ Preflight
    \/ CreateClient
    \/ AuthHeader
    \/ GetUser
    \/ Params
    \/ QueryStore
    \/ InitKite
    \/ FetchLtp
    \/ Success
    \/ Except

Spec == Init /\ [][Next]_vars

TypeOK == pc \in {"idle", "entry", "create_client", "auth_header", "get_user",
                  "params", "select", "kite", "ltp", "respond", "except",
                  "done", "escaped"}

-----------------------------------------------------------------------------
(* Reading a response back: a JSON decoder for the token text, used only   *)
(* to state what a client sees in a response body.                         *)

RECURSIVE ParseValue(_, _)
RECURSIVE ParseMembers(_, _, _)
\* the members from the key at position i on, up to the closing brace
ParseMembers(t, i, acc) ==
    LET r == ParseValue(t, i + 2)
        acc2 == Append(acc, <<t[i].v, r.val>>)
    IN  IF t[r.next] = Punct(",")
        THEN ParseMembers(t, r.next + 1, acc2)
        ELSE [val |-> JObj(acc2), next |-> r.next + 1]

\* the value starting at position i, and the position after it
ParseValue(t, i) ==
    CASE t[i].k = "lit" ->
           [val |-> IF t[i].v = "null" THEN JNull ELSE JBool(t[i].v = "true"),
            next |-> i + 1]
      [] t[i].k = "str" -> [val |-> JStr(t[i].v), next |-> i + 1]
      [] t[i].k = "num" -> [val |-> JNum(t[i].v), next |-> i + 1]
      [] t[i].k = "p" ->
           IF t[i + 1] = Punct("}")
           THEN [val |-> JObj(<<>>), next |-> i + 2]
           ELSE ParseMembers(t, i + 1, <<>>)

Loads(t) == ParseValue(t, 1).val

Keys(obj) == [i \in 1..Len(obj.v) |-> obj.v[i][1]]

Field(obj, name) ==
    obj.v[CHOOSE i \in 1..Len(obj.v) : obj.v[i][1] = name][2]

Returned == pc = "done" /\ resp # None
Status == resp[1].status
Body == Loads(resp[1].body)

\* the response is the failure envelope carrying msg
IsError(msg) ==
    /\ Status = 400
    /\ resp[1].headers = json_headers
    /\ Keys(Body) = <<"success", "error">>
    /\ Field(Body, "success") = JBool(FALSE)
    /\ Field(Body, "error") = JStr(msg)

\* no collaborator after the auth service was reached
StoppedAfterAuth ==
    /\ select_arg = None /\ ltp_arg = None /\ kite = None
    /\ \A i \in 1..Len(calls) : calls[i] = "auth.get_user"

-----------------------------------------------------------------------------
(* C1 *)

\* C1: every request whose method is not OPTIONS ends in exactly one
\* response, with status 200 or 400; when a step raised, the response is 400
\* with body {success: false, error: str(exception)}; no exception leaves
\* the handler; success = true occurs only with status 200.
C1_CatchAll ==
    /\ pc # "escaped"
    /\ (pc = "done" /\ req.method # "OPTIONS") =>
          /\ resp # None
          /\ Status \in {200, 400}
          /\ exc # None => IsError(Str(exc[1]))
          /\ exc = None => Status = 200
          /\ Field(Body, "success") = JBool(TRUE) => Status = 200
          /\ Status = 200 => Field(Body, "success") = JBool(TRUE)

\* a failure of the broker API and a failure of JSON encoding both end as 400
C1_Witness ==
    /\ Returned /\ req.method = "GET"
    /\ exc # None /\ exc[1].type = "TypeError"
    /\ outcome.broker = "returned"
    /\ IsError("Object of type datetime is not JSON serializable")

-----------------------------------------------------------------------------
(* C2 *)

\* C2: a request with method OPTIONS, whatever its headers, parameters and
\* environment, gets status 200, an empty body and exactly the three CORS
\* headers, and nothing downstream happens: no client is constructed and no
\* collaborator is called.
C2_Preflight ==
    req.method = "OPTIONS" /\ pc # "idle" =>
       /\ supabase = FALSE /\ kite = None
       /\ calls = <<>> /\ auth_arg = None /\ select_arg = None /\ ltp_arg = None
       /\ pc \in {"entry", "done"}
       /\ pc = "done" =>
            /\ resp # None
            /\ resp[1].status = 200
            /\ resp[1].body = <<>>
            /\ DOMAIN resp[1].headers =
                  {"Access-Control-Allow-Origin", "Access-Control-Allow-Methods",
                   "Access-Control-Allow-Headers"}
            /\ resp[1].headers = cors_headers

\* an OPTIONS request without credentials in an unconfigured environment
C2_Witness ==
    /\ Returned /\ req.method = "OPTIONS"
    /\ req.headers.Authorization = None
    /\ environ.SUPABASE_URL = None
    /\ resp[1].status = 200

-----------------------------------------------------------------------------
(* C3 *)

NoAuthorization == ~Truthy(req.headers.Authorization, <<>>)

\* C3 as stated: a non-OPTIONS request whose Authorization header is absent
\* or empty gets 400 "No authorization header" whether or not the database
\* client can be constructed, and no collaborator is called.
C3_Original ==
    (pc = "done" /\ req.method # "OPTIONS" /\ NoAuthorization) =>
        /\ IsError("No authorization header")
        /\ calls = <<>>

\* C3 amended: a non-OPTIONS request whose Authorization header is absent or
\* empty gets 400 "No authorization header" when the database client was
\* constructed; when create_client raises (SUPABASE_URL or
\* SUPABASE_SERVICE_ROLE_KEY unset) the 400 carries that exception's message
\* instead; in both cases no collaborator is called.
C3_MissingHeader ==
    (pc = "done" /\ req.method # "OPTIONS" /\ NoAuthorization) =>
        /\ calls = <<>> /\ auth_arg = None /\ select_arg = None /\ ltp_arg = None
        /\ kite = None
        /\ supabase => IsError("No authorization header")
        /\ ~supabase =>
              /\ exc # None /\ exc[1].type = "SupabaseException"
              /\ IsError(Str(exc[1]))

\* the header is absent, the parameters are valid, the client was constructed
C3_Witness ==
    /\ Returned /\ req.method = "GET"
    /\ req.headers.Authorization = None
    /\ req.params.broker_id = Some("b1")
    /\ supabase
    /\ IsError("No authorization header")

-----------------------------------------------------------------------------
(* C4 *)

\* C4 as stated: when the auth service rejects the token, by returning a
\* response without a user or by raising, the response is 400 "Unauthorized"
\* and neither the credential store nor the broker is called.
C4_Original ==
    (pc = "done" /\ outcome.auth \in {"no_user", "raised"}) =>
        /\ IsError("Unauthorized")
        /\ StoppedAfterAuth

\* C4 amended: when get_user returns a response without a user the response
\* is 400 "Unauthorized"; when get_user raises, the response is 400 with the
\* raised error's own message; in both cases get_user was called once and
\* neither the credential store nor the broker is called.
C4_Rejected ==
    (pc = "done" /\ outcome.auth \in {"no_user", "raised"}) =>
        /\ calls = <<"auth.get_user">>
        /\ StoppedAfterAuth
        /\ outcome.auth = "no_user" => IsError("Unauthorized")
        /\ outcome.auth = "raised" =>
              /\ exc # None /\ exc[1] \in AuthErrors
              /\ IsError(Str(exc[1]))

\* a present token, valid parameters, and a response without a user
C4_Witness ==
    /\ Returned
    /\ outcome.auth = "no_user"
    /\ req.params.broker_id = Some("b1")
    /\ auth_arg = Some(<<"a">>)
    /\ IsError("Unauthorized")

-----------------------------------------------------------------------------
(* C5 *)

\* C5: once the token resolved to a user, a missing or empty broker_id gives
\* 400 "Missing broker_id parameter" (also when instruments is missing too);
\* a present broker_id with instruments missing or '' gives 400 "Missing
\* instruments parameter"; the store and the broker are not called.
C5_Parameters ==
    (pc = "done" /\ outcome.auth = "user") =>
        /\ ~Truthy(req.params.broker_id, "") =>
              IsError("Missing broker_id parameter") /\ StoppedAfterAuth
        /\ (Truthy(req.params.broker_id, "")
              /\ ~Truthy(req.params.instruments, <<>>)) =>
              IsError("Missing instruments parameter") /\ StoppedAfterAuth

\* both parameters missing: broker_id is the one reported
C5_Witness ==
    /\ Returned /\ outcome.auth = "user"
    /\ req.params.broker_id = None /\ req.params.instruments = None
    /\ IsError("Missing broker_id parameter")

-----------------------------------------------------------------------------
(* C6 *)

SelectedRows ==
    Select(BrokerConnections, select_arg[1].id, select_arg[1].user_id)

\* C6: a credential counts as connected only when api_key and access_token
\* are both non-empty: when the store returns no row, or a row whose
\* access_token or api_key is empty or missing, the response is 400 "Broker
\* not connected or access token missing" and no broker client is built or
\* called.
C6_BothNonEmpty ==
    /\ kite # None =>
          Truthy(kite[1].api_key, "") /\ Truthy(kite[1].access_token, "")
    /\ (pc = "done" /\ outcome.store \in {"no_row", "row"}
          /\ \A r \in SelectedRows :
                ~Truthy(r.api_key, "") \/ ~Truthy(r.access_token, "")) =>
          /\ IsError("Broker not connected or access token missing")
          /\ kite = None /\ ltp_arg = None

-----------------------------------------------------------------------------
(* C7 *)

CommaPositions(s) == {i \in 1..Len(s) : s[i] = ","}

NthComma(s, n) ==
    CHOOSE p \in CommaPositions(s) :
        Cardinality({q \in CommaPositions(s) : q < p}) = n - 1

\* the characters strictly between positions lo and hi, without the
\* whitespace at either end
Trimmed(s, lo, hi) ==
    LET solid == {i \in (lo + 1)..(hi - 1) : s[i] \notin Whitespace}
    IN  IF solid = {} THEN <<>>
        ELSE SubSeq(s, CHOOSE i \in solid : \A j \in solid : i <= j,
                       CHOOSE i \in solid : \A j \in solid : i >= j)

\* C7: a request that reaches the quote step calls the broker's LTP
\* operation exactly once, with one element per comma-separated field of
\* the instruments string (commas + 1 of them), in order, each
\* whitespace-trimmed, duplicates and empty elements kept.
C7_InstrumentList ==
    /\ LtpCalls(calls) <= 1
    /\ (outcome.broker # "-") = (ltp_arg # None)
    /\ pc \in {"respond"} => ltp_arg # None
    /\ ltp_arg # None =>
          LET s == instruments_str
              n == Cardinality(CommaPositions(s))
              L == ltp_arg[1]
          IN  /\ LtpCalls(calls) = 1
              /\ Len(L) = n + 1
              /\ \A k \in 1..(n + 1) :
                    L[k] = Trimmed(s, IF k = 1 THEN 0 ELSE NthComma(s, k - 1),
                                      IF k = n + 1 THEN Len(s) + 1 ELSE NthComma(s, k))
              /\ s = <<"A", ",", " ", "B">> => L = << <<"A">>, <<"B">> >>
              /\ s = <<"A", ",", "A">> => L = << <<"A">>, <<"A">> >>
              /\ s = <<" ">> => L = << <<>> >>

\* an empty first element and a trimmed second one
C7_Witness ==
    /\ Returned /\ resp[1].status = 200
    /\ instruments_str = <<",", " ", "A">>
    /\ ltp_arg = Some(<< <<>>, <<"A">> >>)

-----------------------------------------------------------------------------
(* C8 *)

\* C8: when the broker's LTP call returns a JSON-serializable result R, the
\* response is 200 with the CORS headers plus Content-Type application/json
\* and a body that decodes to {success: true, data: R}, R unchanged: same
\* keys, same order, same values, none added for absent instruments.
C8_PassThrough ==
    (pc = "done" /\ outcome.broker = "returned" /\ Serializable(ltp_data)) =>
        /\ resp # None
        /\ Status = 200
        /\ resp[1].headers = json_headers
        /\ DOMAIN resp[1].headers =
              DOMAIN cors_headers \cup {"Content-Type"}
        /\ Keys(Body) = <<"success", "data">>
        /\ Field(Body, "success") = JBool(TRUE)
        /\ Field(Body, "data") = ltp_data

\* a result that lacks a quote for one key and names a key not asked for
C8_Witness ==
    /\ Returned /\ Status = 200
    /\ instruments_str = <<"A">>
    /\ ltp_data = JObj(<< <<"NSE:A", JNull>>, <<"NSE:B", Quote("7")>> >>)
    /\ Field(Body, "data") = ltp_data

-----------------------------------------------------------------------------
(* C9 *)

\* the string without its prefix p, when it starts with p
RemovePrefix(h, p) ==
    IF Len(h) >= Len(p) /\ SubSeq(h, 1, Len(p)) = p
    THEN SubSeq(h, Len(p) + 1, Len(h)) ELSE h

\* C9: the token passed to the auth service is the Authorization header
\* value with only a leading "Bearer " removed; later occurrences of
\* "Bearer " in the value stay.
C9_PrefixOnly ==
    auth_arg # None => auth_arg[1] = RemovePrefix(auth_header, Bearer)

-----------------------------------------------------------------------------
(* C10 *)

IsPrefix(a, b) == Len(a) <= Len(b) /\ a = SubSeq(b, 1, Len(a))

\* C10: in one invocation the outbound calls are made at most once each, in
\* the order get_user, credential-store read, broker LTP call, nothing else
\* (no retry, no write); the broker client exists only after get_user gave a
\* user U and the store gave the row with id = broker_id and user_id = U,
\* whose access_token is non-empty, and it carries that row's api_key and
\* access_token; a request repeated after it reached the broker reaches the
\* broker again with a call of its own.
C10_CallOrder ==
    /\ IsPrefix(calls, <<"auth.get_user", "table.select", "kite.ltp">>)
    /\ ltp_arg # None => kite # None
    /\ kite # None =>
          /\ outcome.auth = "user" /\ outcome.store = "row"
          /\ user # None
          /\ select_arg = Some([id |-> broker_id[1], user_id |-> user[1]])
          /\ \E r \in BrokerConnections :
                /\ r.id = broker_id[1] /\ r.user_id = user[1]
                /\ Truthy(r.access_token, "")
                /\ kite[1] = [api_key |-> r.api_key,
                              access_token |-> r.access_token]
    /\ (repeat /\ pc = "done" /\ resp # None /\ resp[1].status = 200) =>
          calls = <<"auth.get_user", "table.select", "kite.ltp">>
    /\ (repeat /\ pc \in {"respond", "done"} /\ outcome.store = "row") =>
          LtpCalls(calls) = 1

\* the same valid request served a second time, with a broker call of its own
C10_Witness ==
    /\ Returned /\ repeat
    /\ resp[1].status = 200
    /\ LtpCalls(calls) = 1
    /\ kite = Some([api_key |-> Some("k1"), access_token |-> Some("t1")])

====
